---- MODULE Spec2Model ----
(***************************************************************************)
(* Model of neurokernel/pattern.py: the port attribute table (Interface)   *)
(* and the connectivity pattern (Pattern) built on top of it.              *)
(*                                                                         *)
(* A pandas DataFrame is a sequence of rows in index order.  A row of the  *)
(* table is [key, attrs]: key is the index tuple (a port identifier in the  *)
(* port table, a <<from, to>> pair in the connection table), attrs maps    *)
(* the columns to cells.  A selector is represented by what the selector   *)
(* language makes of it: the identifiers it expands to, in expansion       *)
(* order, and a flag telling whether it is ambiguous (it cannot be         *)
(* expanded, but can still be matched against the rows of a table).        *)
(***************************************************************************)
EXTENDS Integers, Sequences, FiniteSets, TLC

\* Number of connection writes (Pattern.__setitem__) made on a pattern after
\* its construction by Pattern(), from_product() or from_concat().
MaxWrites == 1

\* Number of writes t[sel, cols...] = value made on a port table on its own
\* after its construction.
MaxPortWrites == 2

\* np.nan in a numeric cell (interface, conn, gmax) and in a string cell (io, type).
NaN == -1
NaNStr == "nan"

----------------------------------------------------------------------------
\* Port identifiers: tuples of tokens, as built by make_index.
aaa0 == <<"aaa", 0>>
aaa1 == <<"aaa", 1>>
bbb0 == <<"bbb", 0>>
bbb1 == <<"bbb", 1>>
ccc0 == <<"ccc", 0>>
foo0 == <<"foo", 0>>
foo1 == <<"foo", 1>>
foo2 == <<"foo", 2>>
bar0 == <<"bar", 0>>
bar1 == <<"bar", 1>>
bar2 == <<"bar", 2>>

\* Selectors, by expansion.  The comment gives the selector string.
Sel(ids, amb) == [ids |-> ids, amb |-> amb]
sA0 == Sel(<<aaa0>>, FALSE)              \* '/aaa[0]'
sA1 == Sel(<<aaa1>>, FALSE)              \* '/aaa[1]'
sA == Sel(<<aaa0, aaa1>>, FALSE)         \* '/aaa[0:2]'
sB0 == Sel(<<bbb0>>, FALSE)              \* '/bbb[0]'
sB == Sel(<<bbb0, bbb1>>, FALSE)         \* '/bbb[0:2]'
sAB0 == Sel(<<aaa0, bbb0>>, FALSE)       \* '/[aaa,bbb][0]'
sBC0 == Sel(<<bbb0, ccc0>>, FALSE)       \* '/[bbb,ccc][0]'
sC0 == Sel(<<ccc0>>, FALSE)              \* '/ccc[0]'
sB00 == Sel(<<bbb0, bbb0>>, FALSE)       \* '/bbb[0,0]'
sBany == Sel(<<bbb0, bbb1>>, TRUE)       \* '/bbb[:]'
sFoo == Sel(<<foo0, foo1, foo2>>, FALSE) \* '/foo[0:3]'
sBar == Sel(<<bar0, bar1, bar2>>, FALSE) \* '/bar[0:3]'
sFoo0 == Sel(<<foo0>>, FALSE)            \* '/foo[0]'
sFoo1 == Sel(<<foo1>>, FALSE)            \* '/foo[1]'
sFoo2 == Sel(<<foo2>>, FALSE)            \* '/foo[2]'
sBar0 == Sel(<<bar0>>, FALSE)            \* '/bar[0]'
sBar1 == Sel(<<bar1>>, FALSE)            \* '/bar[1]'
sBar2 == Sel(<<bar2>>, FALSE)            \* '/bar[2]'

\* Canonical order of tokens and identifiers (level-wise lexicographic).
TokRank(t) ==
    CASE t = "aaa" -> 0 [] t = "bar" -> 1 [] t = "bbb" -> 2 [] t = "ccc" -> 3 [] OTHER -> 4
IdLess(p, q) ==
    \/ TokRank(p[1]) < TokRank(q[1])
    \/ p[1] = q[1] /\ p[2] < q[2]
PairLess(k, l) ==
    \/ IdLess(k[1], l[1])
    \/ k[1] = l[1] /\ IdLess(k[2], l[2])

Range(s) == {s[i] : i \in DOMAIN s}
HasDup(s) == \E i, j \in DOMAIN s : i < j /\ s[i] = s[j]

----------------------------------------------------------------------------
\* The selector language (plsel.PathLikeSelector), as the pattern uses it.

\* is_ambiguous(selector)
is_ambiguous(sel) == sel.amb

\* Whether identifier id is matched by selector sel.
Matches(sel, id) == id \in Range(sel.ids)

\* make_index(selector): the expansion, refused for an ambiguous selector and
\* for one that expands with duplicates.
make_index(sel) ==
    IF sel.amb \/ HasDup(sel.ids)
    THEN [ok |-> FALSE, idx |-> <<>>]
    ELSE [ok |-> TRUE, idx |-> sel.ids]

\* Expansion of 'a+b': every identifier of a followed by every one of b.
RECURSIVE Product(_, _)
Product(xs, ys) ==
    IF xs = <<>> THEN <<>>
    ELSE [i \in 1..Len(ys) |-> <<Head(xs), ys[i]>>] \o Product(Tail(xs), ys)

\* The <<source, destination>> pairs a write with selectors src, dst names.
Pairs(src, dst) == {<<s, d>> : s \in Range(src.ids), d \in Range(dst.ids)}

\* Expansion of 'a.+b': the i-th identifier of a with the i-th of b.
Concat(xs, ys) == [i \in 1..Len(xs) |-> <<xs[i], ys[i]>>]

\* make_index('(from)+(to)')
make_index_product(src, dst) ==
    LET idx == Product(src.ids, dst.ids)
    IN  IF src.amb \/ dst.amb \/ HasDup(idx)
        THEN [ok |-> FALSE, idx |-> <<>>]
        ELSE [ok |-> TRUE, idx |-> idx]

\* make_index('(from).+(to)')
make_index_concat(src, dst) ==
    IF src.amb \/ dst.amb \/ Len(src.ids) # Len(dst.ids)
    THEN [ok |-> FALSE, idx |-> <<>>]
    ELSE LET idx == Concat(src.ids, dst.ids)
         IN  IF HasDup(idx) THEN [ok |-> FALSE, idx |-> <<>>]
             ELSE [ok |-> TRUE, idx |-> idx]

\* select(df, selector) on a port table: the rows the selector matches.
select(rows, sel) ==
    LET Test(r) == Matches(sel, r.key) IN SelectSeq(rows, Test)

\* select(df, 'src+dst') on a connection table.
select_conn(rows, src, dst) ==
    LET Test(r) == Matches(src, r.key[1]) /\ Matches(dst, r.key[2])
    IN  SelectSeq(rows, Test)

\* get_index(df, selector) on a port table: the index of the matching rows;
\* fails when nothing matches.
get_index(rows, sel) ==
    LET m == select(rows, sel)
    IN  [ok |-> m # <<>>, idx |-> {m[i].key : i \in DOMAIN m}]

\* get_index(df, 'src+dst') on a connection table.
get_index_conn(rows, src, dst) ==
    LET m == select_conn(rows, src, dst)
    IN  [ok |-> m # <<>>, idx |-> {m[i].key : i \in DOMAIN m}]

\* to_identifier(tokens): the selector string that denotes the identifier.
to_identifier(id) == "/" \o id[1] \o "[" \o ToString(id[2]) \o "]"

\* are_disjoint(selectors): no identifier is in two of the selectors.
are_disjoint(sels) ==
    \A i, j \in DOMAIN sels :
        i < j => Range(sels[i].ids) \cap Range(sels[j].ids) = {}

----------------------------------------------------------------------------
\* DataFrame operations shared by the port table and the connection table.
\* A row is [key, attrs]: key is the index tuple, attrs maps each column of
\* the table to its cell.

\* Column names, in the (alphabetical) order pandas gives the columns of a
\* frame built from a dict, and of the union made by append.
AllColumns == <<"conn", "gmax", "interface", "io", "type">>
ColSeq(S) == LET In(c) == c \in S IN SelectSeq(AllColumns, In)

\* The cell of a column that was never set.
NaNOf(col) == IF col \in {"io", "type"} THEN NaNStr ELSE NaN

Keys(rows) == {rows[i].key : i \in DOMAIN rows}

\* df[k].ix[idx] = v for every (k, v) of d; every k is a column of df.
SetCells(rows, idx, d) ==
    [i \in DOMAIN rows |->
        IF rows[i].key \in idx
        THEN [key |-> rows[i].key,
              attrs |-> [c \in DOMAIN rows[i].attrs |->
                            IF c \in DOMAIN d THEN d[c] ELSE rows[i].attrs[c]]]
        ELSE rows[i]]

\* DataFrame.sort(): stable sort of the rows by index tuple.
\* nlev is the number of levels of the index: those of one identifier in the
\* port table, those of two in the connection table.
KeyLess(nlev, k, l) == IF nlev = "one" THEN IdLess(k, l) ELSE PairLess(k, l)

RECURSIVE InsertRow(_, _, _)
InsertRow(r, rows, nlev) ==
    IF rows = <<>> THEN <<r>>
    ELSE IF KeyLess(nlev, r.key, Head(rows).key) THEN <<r>> \o rows
    ELSE <<Head(rows)>> \o InsertRow(r, Tail(rows), nlev)

RECURSIVE sort(_, _)
sort(rows, nlev) ==
    IF rows = <<>> THEN <<>>
    ELSE InsertRow(rows[Len(rows)], sort(SubSeq(rows, 1, Len(rows) - 1), nlev), nlev)

\* df.append(pd.DataFrame(data=d, index=idx)): the rows of df, then one row
\* per entry of idx holding d; the columns are the union, unset cells are NaN.
append(rows, columns, idx, d) ==
    LET cs == Range(columns) \cup DOMAIN d
        Widen(r) == [key |-> r.key,
                     attrs |-> [c \in cs |-> IF c \in DOMAIN r.attrs
                                             THEN r.attrs[c] ELSE NaNOf(c)]]
        New(k) == [key |-> k,
                   attrs |-> [c \in cs |-> IF c \in DOMAIN d THEN d[c] ELSE NaNOf(c)]]
    IN  [rows |-> [i \in DOMAIN rows |-> Widen(rows[i])]
                  \o [i \in DOMAIN idx |-> New(idx[i])],
         columns |-> ColSeq(cs)]

\* Values assigned through [] (the right-hand side of an assignment).
Scalar(v) == [kind |-> "scalar", v |-> v]
Dict(d) == [kind |-> "dict", d |-> d]
List(s) == [kind |-> "list", s |-> s]
None == [kind |-> "none"]

\* The conversion of the assigned value to a dict of column -> cell, common to
\* Interface.__setitem__ and Pattern.__setitem__: cols are the columns named
\* in the key (empty when none is named), columns those of the table.
ZipDict(names, s) ==
    [c \in {names[i] : i \in 1..Len(s)} |->
        s[CHOOSE i \in 1..Len(s) :
            names[i] = c /\ \A j \in 1..Len(s) : names[j] = c => j <= i]]

value_to_dict(cols, columns, value) ==
    LET names == IF cols # <<>> THEN cols ELSE columns
    IN  CASE value.kind = "scalar" ->
               [ok |-> TRUE,
                d |-> IF cols # <<>> THEN [c \in Range(cols) |-> value.v]
                      ELSE [c \in {columns[1]} |-> value.v]]
          [] value.kind = "dict" -> [ok |-> TRUE, d |-> value.d]
          [] value.kind = "list" /\ Len(value.s) <= Len(names) ->
               [ok |-> TRUE, d |-> ZipDict(names, value.s)]
          [] OTHER -> [ok |-> FALSE, d |-> <<>>]

\* The store that ends both __setitem__ methods.  Found rows are overwritten
\* column by column in the dict's iteration order, and naming a column the
\* table does not have raises KeyError at that point, after the columns
\* iterated before it were written.  Otherwise the rows are appended and the
\* table is sorted.  The result is the set of possible outcomes.
store(rows, columns, found, idx, d, nlev) ==
    IF found
    THEN IF DOMAIN d \subseteq Range(columns)
         THEN {[status |-> "ok", rows |-> SetCells(rows, idx.set, d), columns |-> columns]}
         ELSE {[status |-> "KeyError",
                rows |-> SetCells(rows, idx.set, [c \in K |-> d[c]]),
                columns |-> columns] : K \in SUBSET (DOMAIN d \cap Range(columns))}
    ELSE LET a == append(rows, columns, idx.seq, d)
         IN  {[status |-> "ok", rows |-> sort(a.rows, nlev), columns |-> a.columns]}

----------------------------------------------------------------------------
\* class Interface

InterfaceColumns == <<"interface", "io", "type">>

\* Interface.__validate_index__: duplicate index entries are refused.
Interface__validate_index__(idx) == ~HasDup(idx)

\* Interface.__init__(selector): one row per identifier, every cell unset.
Interface__init__(sel) ==
    IF is_ambiguous(sel)
    THEN [status |-> "AmbiguousSelector", data |-> <<>>]
    ELSE LET mi == make_index(sel)
         IN  IF ~mi.ok \/ ~Interface__validate_index__(mi.idx)
             THEN [status |-> "DuplicateIdentifier", data |-> <<>>]
             ELSE [status |-> "ok",
                   data |-> [i \in DOMAIN mi.idx |->
                               [key |-> mi.idx[i],
                                attrs |-> [c \in Range(InterfaceColumns) |-> NaNOf(c)]]]]

\* Mutant of Interface__setitem__: the existing rows are not looked up, the
\* rows the selector expands to are always appended.
Interface__setitem__NeverFound(rows, columns, sel, cols, value) ==
    LET mi == make_index(sel)
        vd == value_to_dict(cols, columns, value)
    IN  IF ~mi.ok
        THEN {[status |-> "AmbiguousSelector", rows |-> rows, columns |-> columns]}
        ELSE IF ~vd.ok
        THEN {[status |-> "ValueShape", rows |-> rows, columns |-> columns]}
        ELSE store(rows, columns, FALSE, [set |-> {}, seq |-> mi.idx], vd.d, "one")

\* Interface.__setitem__((selector, cols...), value) on the table `rows`:
\* the set of possible outcomes [status, rows, columns].
Interface__setitem__(rows, columns, sel, cols, value) ==
    LET gi == get_index(rows, sel)
        mi == make_index(sel)
        vd == value_to_dict(cols, columns, value)
    IN  IF ~gi.ok /\ ~mi.ok
        THEN {[status |-> "AmbiguousSelector", rows |-> rows, columns |-> columns]}
        ELSE IF ~vd.ok
        THEN {[status |-> "ValueShape", rows |-> rows, columns |-> columns]}
        ELSE store(rows, columns, gi.ok, [set |-> gi.idx, seq |-> mi.idx], vd.d, "one")

\* which_int without the discard of the unset value.
which_int_KeepUnset(rows, sel) ==
    LET m == select(rows, sel)
    IN  {m[i].attrs["interface"] : i \in DOMAIN m}

\* Interface.which_int(s): the interface values of the matched rows, unset
\* ones discarded.
which_int(rows, sel) ==
    LET m == select(rows, sel)
    IN  {m[i].attrs["interface"] : i \in DOMAIN m} \ {NaN}

\* Interface.__getitem__(selector): the rows the selector matches.
Interface__getitem__(rows, sel) == select(rows, sel)

\* Interface.interface_ids: set(self.data['interface'])
interface_ids(rows) == {rows[i].attrs["interface"] : i \in DOMAIN rows}

\* cls.__validate_index__(df.index) in the classmethod from_df:
\* __validate_index__ is an instance method, looked up on the class it is
\* unbound, and the index it is called with is not an Interface instance.
\* The call raises TypeError before the body of the method runs.
cls__validate_index__(idx) == "TypeError"

\* Interface.from_df(df): [status, rows].
from_df(rows, columns) ==
    IF ~(Range(InterfaceColumns) \subseteq Range(columns))
    THEN [status |-> "Assertion", rows |-> <<>>]
    ELSE LET v == cls__validate_index__([i \in DOMAIN rows |-> rows[i].key])
         IN  IF v # "ok" THEN [status |-> v, rows |-> <<>>]
             ELSE [status |-> "ok", rows |-> rows]

\* Interface.get_interface(i): from_df of the rows whose interface is i.
get_interface(rows, i) ==
    LET Test(r) == r.attrs["interface"] = i
    IN  from_df(SelectSeq(rows, Test), InterfaceColumns)

\* Interface.data_select(lambda x: x['type'] == t): from_df of the rows of
\* that type.
data_select(rows, t) ==
    LET Test(r) == r.attrs["type"] = t
    IN  from_df(SelectSeq(rows, Test), InterfaceColumns)

\* Interface.ports(i), in_ports(i), out_ports(i): the identifiers of the
\* ports of interface i, of those with io 'in', of those with io 'out', in
\* table order.
KeySeq(rows) == [i \in DOMAIN rows |-> rows[i].key]
ports(rows, i) ==
    LET Test(r) == r.attrs["interface"] = i IN KeySeq(SelectSeq(rows, Test))
\* in_ports without the test of io.
in_ports_AnyIo(rows, i) ==
    LET Test(r) == r.attrs["interface"] = i IN KeySeq(SelectSeq(rows, Test))

in_ports(rows, i) ==
    LET Test(r) == r.attrs["io"] = "in" /\ r.attrs["interface"] = i
    IN  KeySeq(SelectSeq(rows, Test))

out_ports(rows, i) ==
    LET Test(r) == r.attrs["io"] = "out" /\ r.attrs["interface"] = i
    IN  KeySeq(SelectSeq(rows, Test))

\* Interface.is_compatible(a, i, b) on the table `rows`, i being the table
\* `other`: [status, result].  The io of every row of both tables must be
\* set; the indices of the two interfaces are compared as sequences, then
\* the io of a row by row.
is_compatible(rows, a, other, b) ==
    LET IoSet(t) == \A i \in DOMAIN t : t[i].attrs["io"] \in {"in", "out"}
        Inv(x) == IF x = "in" THEN "out" ELSE IF x = "out" THEN "in" ELSE x
        TestA(r) == r.attrs["interface"] = a
        TestB(r) == r.attrs["interface"] = b
        ra == SelectSeq(rows, TestA)
        rb == SelectSeq(other, TestB)
    IN  IF ~IoSet(rows) \/ ~IoSet(other)
        THEN [status |-> "Direction", result |-> FALSE]
        ELSE [status |-> "ok",
              result |-> /\ KeySeq(ra) = KeySeq(rb)
                         /\ \A i \in DOMAIN ra : Inv(ra[i].attrs["io"]) = rb[i].attrs["io"]]

----------------------------------------------------------------------------
\* class Pattern

\* Pattern.in_interfaces(selector)
in_interfaces(rows, sel) == Len(select(rows, sel)) > 0

\* Pattern.__validate_index__(idx): duplicate connections and fan-in are
\* refused.  idx is a sequence of <<from, to>> keys.
Pattern__validate_index__(idx) ==
    IF HasDup(idx) THEN "DuplicateIdentifier"
    ELSE IF HasDup([i \in DOMAIN idx |-> idx[i][2]]) THEN "FanIn"
    ELSE "ok"

\* The selectors of Pattern.__init__ joined into the one given to Interface.
RECURSIVE JoinSelectors(_)
JoinSelectors(sels) ==
    IF sels = <<>> THEN Sel(<<>>, FALSE)
    ELSE LET rest == JoinSelectors(Tail(sels))
         IN  Sel(Head(sels).ids \o rest.ids, Head(sels).amb \/ rest.amb)

\* Mutant of SetInterfaceIds: every selector's ports get the identifier of
\* the first selector.
SetInterfaceIds_AllFirst(rows, sels, i) ==
    [j \in DOMAIN rows |->
        [key |-> rows[j].key, attrs |-> [rows[j].attrs EXCEPT !["interface"] = 0]]]

\* for i, s in enumerate(selectors): self.interface[s, 'interface'] = i
RECURSIVE SetInterfaceIds(_, _, _)
SetInterfaceIds(rows, sels, i) ==
    IF i > Len(sels) THEN rows
    ELSE LET r == CHOOSE o \in Interface__setitem__(rows, InterfaceColumns, sels[i],
                                                    <<"interface">>, Scalar(i - 1)) : TRUE
         IN  SetInterfaceIds(r.rows, sels, i + 1)

\* Mutant of Pattern__init__: the selectors are not asserted disjoint.
Pattern__init__NoDisjointAssert(sels) ==
    LET i == Interface__init__(JoinSelectors(sels))
    IN  IF i.status # "ok"
        THEN [status |-> i.status, interface |-> <<>>, data |-> <<>>, columns |-> <<>>]
        ELSE [status |-> "ok",
              interface |-> SetInterfaceIds(i.data, sels, 1),
              data |-> <<>>,
              columns |-> <<"conn">>]

\* Pattern.__init__(*selectors): [status, interface, data, columns].
Pattern__init__(sels) ==
    IF ~are_disjoint(sels)
    THEN [status |-> "Disjointness", interface |-> <<>>, data |-> <<>>, columns |-> <<>>]
    ELSE LET i == Interface__init__(JoinSelectors(sels))
         IN  IF i.status # "ok"
             THEN [status |-> i.status, interface |-> <<>>, data |-> <<>>, columns |-> <<>>]
             ELSE [status |-> "ok",
                   interface |-> SetInterfaceIds(i.data, sels, 1),
                   data |-> <<>>,
                   columns |-> <<"conn">>]

\* Mutant of setitem_assert: the interfaces of the two selectors are not
\* compared.
setitem_assert_NoGroupCheck(rows, src, dst) ==
    IF ~in_interfaces(rows, src) \/ ~in_interfaces(rows, dst) THEN "Addressing"
    ELSE "ok"

\* Pattern.__setitem__, the assertions on the key.
setitem_assert(rows, src, dst) ==
    IF ~in_interfaces(rows, src) \/ ~in_interfaces(rows, dst) THEN "Addressing"
    ELSE IF which_int(rows, src) = which_int(rows, dst) THEN "Direction"
    ELSE "ok"

\* Mutant of setitem_index: the existing rows are not looked up, the rows the
\* selector expands to are always new.
setitem_index_NeverFound(data, src, dst) ==
    LET mi == make_index_product(src, dst)
    IN  [ok |-> mi.ok, found |-> FALSE, set |-> {}, seq |-> mi.idx]

\* Pattern.__setitem__, the index of the rows to write: the existing rows
\* the selector src+dst matches, and if there is none the rows it expands to.
setitem_index(data, src, dst) ==
    LET gi == get_index_conn(data, src, dst)
        mi == make_index_product(src, dst)
    IN  [ok |-> gi.ok \/ mi.ok, found |-> gi.ok, set |-> gi.idx, seq |-> mi.idx]

\* Pattern.__setitem__, the update of the io attributes.
setitem_io(rows, src, dst) ==
    LET a == CHOOSE o \in Interface__setitem__(rows, InterfaceColumns, src,
                                               <<"io">>, Scalar("in")) : TRUE
        b == CHOOSE o \in Interface__setitem__(a.rows, InterfaceColumns, dst,
                                               <<"io">>, Scalar("out")) : TRUE
    IN  b.rows

\* Mutant of Pattern__setitem__: when the rows exist, the column assignments
\* go to a copy and the stored attributes keep their old values.
Pattern__setitem__KeepFound(rows, data, columns, src, dst, cols, value) ==
    LET chk == setitem_assert(rows, src, dst)
        ix == setitem_index(data, src, dst)
        vd == value_to_dict(cols, columns, value)
        Out(st, f, r, d, c) ==
            [status |-> st, found |-> f, interface |-> r, data |-> d, columns |-> c]
    IN  IF chk # "ok" THEN {Out(chk, FALSE, rows, data, columns)}
        ELSE IF ~ix.ok THEN {Out("AmbiguousSelector", FALSE, rows, data, columns)}
        ELSE IF ~vd.ok
        THEN {Out("ValueShape", ix.found, setitem_io(rows, src, dst), data, columns)}
        ELSE IF ix.found
        THEN {Out("ok", TRUE, setitem_io(rows, src, dst), data, columns)}
        ELSE {Out(o.status, ix.found, setitem_io(rows, src, dst), o.rows, o.columns) :
                o \in store(data, columns, ix.found, ix, vd.d, "two")}

\* Pattern.__setitem__((src, dst, cols...), value): the set of possible
\* outcomes [status, found, interface, data, columns].
Pattern__setitem__(rows, data, columns, src, dst, cols, value) ==
    LET chk == setitem_assert(rows, src, dst)
        ix == setitem_index(data, src, dst)
        vd == value_to_dict(cols, columns, value)
        Out(st, f, r, d, c) ==
            [status |-> st, found |-> f, interface |-> r, data |-> d, columns |-> c]
    IN  IF chk # "ok" THEN {Out(chk, FALSE, rows, data, columns)}
        ELSE IF ~ix.ok THEN {Out("AmbiguousSelector", FALSE, rows, data, columns)}
        ELSE IF ~vd.ok
        THEN {Out("ValueShape", ix.found, setitem_io(rows, src, dst), data, columns)}
        ELSE {Out(o.status, ix.found, setitem_io(rows, src, dst), o.rows, o.columns) :
                o \in store(data, columns, ix.found, ix, vd.d, "two")}

\* Pattern.get_conns(as_str): the keys of the connection table in table
\* order, as pairs of identifiers or of identifier strings.
get_conns(data, as_str) ==
    [i \in DOMAIN data |->
        IF as_str THEN <<to_identifier(data[i].key[1]), to_identifier(data[i].key[2])>>
        ELSE <<data[i].key[1], data[i].key[2]>>]

\* Pattern.__getitem__((src, dst)): the rows 'src+dst' matches.
Pattern__getitem__(data, src, dst) == select_conn(data, src, dst)

\* OrderedDict.fromkeys(s).keys(): s without its repeated elements, the
\* first occurrences in order.
RECURSIVE OrderedKeys(_)
OrderedKeys(s) ==
    IF s = <<>> THEN <<>>
    ELSE LET r == OrderedKeys(SubSeq(s, 1, Len(s) - 1))
         IN  IF s[Len(s)] \in Range(r) THEN r ELSE Append(r, s[Len(s)])

\* The part src_idx and dest_idx share: the interface `int_id` restricted to
\* the ports of type `type` and to those `sel` matches, when given.
\* [status, rows].
restrict_interface(rows, int_id, type, sel) ==
    LET g == get_interface(rows, int_id)
        t == IF type = None \/ g.status # "ok" THEN g ELSE data_select(g.rows, type.v)
    IN  IF t.status # "ok" \/ sel = None THEN t
        ELSE [status |-> "ok", rows |-> Interface__getitem__(t.rows, sel)]

\* Pattern.src_idx(src_int, dest_int, src_type, dest_type, dest_ports):
\* [status, result].
src_idx(rows, data, src_int, dest_int, src_type, dest_type, dest_ports) ==
    IF \/ src_int = dest_int
       \/ src_int \notin interface_ids(rows)
       \/ dest_int \notin interface_ids(rows)
    THEN [status |-> "Assertion", result |-> <<>>]
    ELSE LET to_int == restrict_interface(rows, dest_int, dest_type, dest_ports)
             from_int == restrict_interface(rows, src_int, src_type, None)
             Test(r) == r.key[1] \in Keys(from_int.rows) /\ r.key[2] \in Keys(to_int.rows)
             idx == SelectSeq(data, Test)
         IN  IF to_int.status # "ok" THEN [status |-> to_int.status, result |-> <<>>]
             ELSE IF from_int.status # "ok"
             THEN [status |-> from_int.status, result |-> <<>>]
             ELSE [status |-> "ok",
                   result |-> OrderedKeys([i \in DOMAIN idx |-> idx[i].key[1]])]

\* Pattern.dest_idx(src_int, dest_int, src_type, dest_type, src_ports):
\* [status, result].
dest_idx(rows, data, src_int, dest_int, src_type, dest_type, src_ports) ==
    IF \/ src_int = dest_int
       \/ src_int \notin interface_ids(rows)
       \/ dest_int \notin interface_ids(rows)
    THEN [status |-> "Assertion", result |-> <<>>]
    ELSE LET from_int == restrict_interface(rows, src_int, src_type, src_ports)
             to_int == restrict_interface(rows, dest_int, dest_type, None)
             Test(r) == r.key[1] \in Keys(from_int.rows) /\ r.key[2] \in Keys(to_int.rows)
             idx == SelectSeq(data, Test)
         IN  IF from_int.status # "ok" THEN [status |-> from_int.status, result |-> <<>>]
             ELSE IF to_int.status # "ok"
             THEN [status |-> to_int.status, result |-> <<>>]
             ELSE [status |-> "ok",
                   result |-> OrderedKeys([i \in DOMAIN idx |-> idx[i].key[2]])]

\* Pattern.is_connected(from_int, to_int): [status, result].  The interfaces
\* are fetched inside the loop over the connections whose conn is not 0:
\* that of from_int for every connection, that of to_int once the source of
\* a connection is in from_int.
is_connected(rows, data, from_int, to_int) ==
    IF \/ from_int = to_int
       \/ from_int \notin interface_ids(rows)
       \/ to_int \notin interface_ids(rows)
    THEN [status |-> "Assertion", result |-> FALSE]
    ELSE LET Test(r) == r.attrs["conn"] # 0
             idx == SelectSeq(data, Test)
             f == get_interface(rows, from_int)
             t == get_interface(rows, to_int)
             J == {i \in DOMAIN idx : idx[i].key[1] \in Keys(f.rows)}
         IN  IF idx = <<>> THEN [status |-> "ok", result |-> FALSE]
             ELSE IF f.status # "ok" THEN [status |-> f.status, result |-> FALSE]
             ELSE IF J = {} THEN [status |-> "ok", result |-> FALSE]
             ELSE IF t.status # "ok" THEN [status |-> t.status, result |-> FALSE]
             ELSE [status |-> "ok",
                   result |-> \E i \in J : idx[i].key[2] \in Keys(t.rows)]

\* Mutant of clear: nothing is dropped.
clear_Noop(data) == data

\* Pattern.clear(): every connection is dropped, the port table is kept.
clear(data) == <<>>

\* Pattern._create_from(*selectors, from_sel, to_sel, data, comb_op):
\* [status, interface, data, columns].
_create_from(sels, from_sel, to_sel, data, comb_op) ==
    LET p == Pattern__init__(sels)
        mi == IF comb_op = "+" THEN make_index_product(from_sel, to_sel)
              ELSE make_index_concat(from_sel, to_sel)
        df == [i \in DOMAIN mi.idx |->
                 [key |-> mi.idx[i], attrs |-> [c \in Range(p.columns) |-> data]]]
        a == CHOOSE o \in Interface__setitem__(p.interface, InterfaceColumns, from_sel,
                                               <<"io">>, Scalar("in")) : TRUE
        b == CHOOSE o \in Interface__setitem__(a.rows, InterfaceColumns, to_sel,
                                               <<"io">>, Scalar("out")) : TRUE
        Fail(st) == [status |-> st, interface |-> <<>>, data |-> <<>>, columns |-> <<>>]
    IN  IF p.status # "ok" THEN Fail(p.status)
        ELSE IF ~mi.ok THEN Fail("AmbiguousSelector")
        ELSE IF a.status # "ok" THEN Fail(a.status)
        ELSE IF b.status # "ok" THEN Fail(b.status)
        ELSE [status |-> "ok", interface |-> b.rows, data |-> df, columns |-> p.columns]

\* Pattern.from_product
from_product(sels, from_sel, to_sel, data) ==
    _create_from(sels, from_sel, to_sel, data, "+")

\* from_concat combining the selectors as from_product does.
from_concat_AsProduct(sels, from_sel, to_sel, data) ==
    _create_from(sels, from_sel, to_sel, data, "+")

\* Pattern.from_concat
from_concat(sels, from_sel, to_sel, data) ==
    _create_from(sels, from_sel, to_sel, data, ".+")

----------------------------------------------------------------------------
\* The state machine: one Pattern object, from its construction on.

VARIABLES
    pc,         \* "new": not constructed; "failed": the constructor raised;
                \* "returned": a call on the pattern has just returned, its
                \* outcome is in `last`; "idle": between two calls
    interface,  \* Pattern.interface.data, the port table
    data,       \* Pattern.data, the connection table
    columns,    \* Pattern.data.columns
    nwrites,    \* number of p[src, dst] = value calls made so far
    last        \* the last call: [op, status, args]

vars == <<pc, interface, data, columns, nwrites, last>>

\* Inputs of the calls.
Selectors == {sA0, sA1, sA, sB0, sB, sAB0, sBC0, sC0, sB00, sBany}
InitSelectors == {<<sA, sB>>, <<sA, sA0>>, <<sAB0, sB>>, <<sA, sB00>>,
                  <<sA, sBany>>, <<sA0, sB, sAB0>>, <<sA1, sB, sA0>>}
BulkSelectors == {<<sA0, sB0>>, <<sA, sB>>, <<sA, sB0>>, <<sA0, sC0>>, <<sA, sB00>>}
ColVal(cols, value) == [cols |-> cols, value |-> value]
ColVals == {ColVal(<<>>, Scalar(1)),
            ColVal(<<>>, Scalar(0)),
            ColVal(<<"conn", "gmax">>, List(<<0, 1>>)),
            ColVal(<<>>, List(<<1, 1>>)),
            ColVal(<<>>, None)}
BulkData == {NaN, 1}

NoCall == [op |-> "none", status |-> "ok", args |-> <<>>]

Init ==
    /\ pc = "new"
    /\ interface = <<>>
    /\ data = <<>>
    /\ columns = <<>>
    /\ nwrites = 0
    /\ last = NoCall

Constructed(p, n, l) ==
    /\ pc' = IF p.status = "ok" THEN "returned" ELSE "failed"
    /\ interface' = p.interface
    /\ data' = p.data
    /\ columns' = p.columns
    /\ nwrites' = n
    /\ last' = l

\* p = Pattern(sel0, sel1, ...)
New(sels) ==
    /\ pc = "new"
    /\ LET p == Pattern__init__(sels)
       IN  Constructed(p, 0, [op |-> "init", status |-> p.status,
                              args |-> [sels |-> sels]])

\* p = Pattern.from_product(sel0, sel1, from_sel=, to_sel=, data=)
FromProduct(sels, from_sel, to_sel, d) ==
    /\ pc = "new"
    /\ LET p == from_product(sels, from_sel, to_sel, d)
       IN  Constructed(p, 0, [op |-> "from_product", status |-> p.status,
                              args |-> [sels |-> sels, from_sel |-> from_sel,
                                        to_sel |-> to_sel, data |-> d]])

\* p = Pattern.from_concat(sel0, sel1, from_sel=, to_sel=, data=)
FromConcat(sels, from_sel, to_sel, d) ==
    /\ pc = "new"
    /\ LET p == from_concat(sels, from_sel, to_sel, d)
       IN  Constructed(p, 0, [op |-> "from_concat", status |-> p.status,
                              args |-> [sels |-> sels, from_sel |-> from_sel,
                                        to_sel |-> to_sel, data |-> d]])

\* p[src, dst, cols...] = value
Setitem(src, dst, cols, value) ==
    /\ pc = "idle"
    /\ nwrites < MaxWrites
    /\ \E o \in Pattern__setitem__(interface, data, columns, src, dst, cols, value) :
        /\ interface' = o.interface
        /\ data' = o.data
        /\ columns' = o.columns
        /\ last' = [op |-> "setitem", status |-> o.status,
                    args |-> [src |-> src, dst |-> dst, cols |-> cols,
                              value |-> value, found |-> o.found]]
    /\ nwrites' = nwrites + 1
    /\ pc' = "returned"

\* p.clear()
Clear ==
    /\ pc = "idle"
    /\ data' = clear(data)
    /\ last' = [op |-> "clear", status |-> "ok", args |-> [len |-> Len(data)]]
    /\ pc' = "returned"
    /\ UNCHANGED <<interface, columns, nwrites>>

\* The caller goes on to its next call.
Return ==
    /\ pc = "returned"
    /\ pc' = "idle"
    /\ last' = NoCall
    /\ UNCHANGED <<interface, data, columns, nwrites>>

Next ==
    \/ \E sels \in InitSelectors : New(sels)
    \/ \E ft \in BulkSelectors, d \in BulkData :
         FromProduct(<<sA, sB>>, ft[1], ft[2], d)
    \/ \E ft \in BulkSelectors, d \in BulkData :
         FromConcat(<<sA, sB>>, ft[1], ft[2], d)
    \/ \E src, dst \in Selectors, cv \in ColVals : Setitem(src, dst, cv.cols, cv.value)
    \/ Clear
    \/ Return

Spec == Init /\ [][Next]_vars

----------------------------------------------------------------------------
\* The pattern and its queries: the calls that read a pattern, and the
\* writes to its port table through p.interface.

sC00 == Sel(<<ccc0, ccc0>>, FALSE)       \* '/ccc[0,0]'

\* Inputs of the calls.
QInitSelectors == {<<sA, sB>>, <<sA1, sB, sA0>>, <<sA, sB00>>}
QSelectors == {sA0, sA1, sA, sB0, sB}
QColVals == {ColVal(<<>>, Scalar(1)), ColVal(<<>>, Scalar(0))}
PortWrites == {[sel |-> sA, cols |-> <<"type">>, value |-> Scalar("spike")],
               [sel |-> sB0, cols |-> <<"type">>, value |-> Scalar("spike")],
               [sel |-> sC0, cols |-> <<>>, value |-> List(<<1, "out", "gpot">>)],
               [sel |-> sC00, cols |-> <<"type">>, value |-> Scalar("spike")],
               [sel |-> sA0, cols |-> <<"type">>, value |-> None]}
GroupPairs == {<<0, 1>>, <<1, 0>>, <<0, 0>>, <<0, 2>>, <<2, 1>>}
Filters == {[src_type |-> None, dest_type |-> None, ports |-> None],
            [src_type |-> Scalar("spike"), dest_type |-> None, ports |-> None],
            [src_type |-> None, dest_type |-> Scalar("spike"), ports |-> sB0],
            [src_type |-> None, dest_type |-> None, ports |-> sA]}
ReadSelectors == {<<sA, sB>>, <<sA0, sB0>>, <<sB, sA0>>}
Groups == {0, 1, 2}

\* Mutant of Query: the call drops the connections it has read.
Query_Drops(op, status, args, result) ==
    /\ pc = "idle"
    /\ pc' = "returned"
    /\ last' = [op |-> op, status |-> status, args |-> args, result |-> result]
    /\ data' = <<>>
    /\ UNCHANGED <<interface, columns, nwrites>>

\* A call that reads the pattern: it returns `result` or fails with `status`
\* and assigns nothing.
Query(op, status, args, result) ==
    /\ pc = "idle"
    /\ pc' = "returned"
    /\ last' = [op |-> op, status |-> status, args |-> args, result |-> result]
    /\ UNCHANGED <<interface, data, columns, nwrites>>

\* p.interface[sel, cols...] = value
InterfaceSetitem(sel, cols, value) ==
    /\ pc = "idle"
    /\ \E o \in Interface__setitem__(interface, InterfaceColumns, sel, cols, value) :
        /\ interface' = o.rows
        /\ last' = [op |-> "interface_setitem", status |-> o.status,
                    args |-> [sel |-> sel, cols |-> cols, value |-> value]]
    /\ pc' = "returned"
    /\ UNCHANGED <<data, columns, nwrites>>

\* p.is_connected(from_int, to_int)
IsConnected(from_int, to_int) ==
    LET r == is_connected(interface, data, from_int, to_int)
    IN  Query("is_connected", r.status,
              [from_int |-> from_int, to_int |-> to_int], r.result)

\* p.src_idx(src_int, dest_int, src_type, dest_type, dest_ports)
SrcIdx(src_int, dest_int, src_type, dest_type, dest_ports) ==
    LET r == src_idx(interface, data, src_int, dest_int, src_type, dest_type, dest_ports)
    IN  Query("src_idx", r.status,
              [src_int |-> src_int, dest_int |-> dest_int, src_type |-> src_type,
               dest_type |-> dest_type, ports |-> dest_ports], r.result)

\* p.dest_idx(src_int, dest_int, src_type, dest_type, src_ports)
DestIdx(src_int, dest_int, src_type, dest_type, src_ports) ==
    LET r == dest_idx(interface, data, src_int, dest_int, src_type, dest_type, src_ports)
    IN  Query("dest_idx", r.status,
              [src_int |-> src_int, dest_int |-> dest_int, src_type |-> src_type,
               dest_type |-> dest_type, ports |-> src_ports], r.result)

\* p.get_conns(as_str)
GetConns(as_str) ==
    Query("get_conns", "ok", [as_str |-> as_str], get_conns(data, as_str))

\* p[src, dst]
Getitem(src, dst) ==
    Query("getitem", "ok", [src |-> src, dst |-> dst], Pattern__getitem__(data, src, dst))

\* p.which_int(sel), p.in_interfaces(sel)
WhichInt(sel) == Query("which_int", "ok", [sel |-> sel], which_int(interface, sel))
InInterfaces(sel) ==
    Query("in_interfaces", "ok", [sel |-> sel], in_interfaces(interface, sel))

\* p.get_interface(i)
GetInterface(i) ==
    LET r == get_interface(interface, i)
    IN  Query("get_interface", r.status, [i |-> i], r.rows)

\* p.interface.ports(i), in_ports(i), out_ports(i)
Ports(i) == Query("ports", "ok", [i |-> i], ports(interface, i))
InPorts(i) == Query("in_ports", "ok", [i |-> i], in_ports(interface, i))
OutPorts(i) == Query("out_ports", "ok", [i |-> i], out_ports(interface, i))

NextQ ==
    \/ \E sels \in QInitSelectors : New(sels)
    \/ \E src, dst \in QSelectors, cv \in QColVals : Setitem(src, dst, cv.cols, cv.value)
    \/ \E w \in PortWrites : InterfaceSetitem(w.sel, w.cols, w.value)
    \/ \E g \in GroupPairs : IsConnected(g[1], g[2])
    \/ \E g \in GroupPairs, f \in Filters :
         SrcIdx(g[1], g[2], f.src_type, f.dest_type, f.ports)
    \/ \E g \in GroupPairs, f \in Filters :
         DestIdx(g[1], g[2], f.src_type, f.dest_type, f.ports)
    \/ \E as_str \in BOOLEAN : GetConns(as_str)
    \/ \E sd \in ReadSelectors : Getitem(sd[1], sd[2])
    \/ \E sel \in QSelectors : WhichInt(sel)
    \/ \E sel \in QSelectors : InInterfaces(sel)
    \/ \E i \in Groups : GetInterface(i)
    \/ \E i \in Groups : Ports(i)
    \/ \E i \in Groups : InPorts(i)
    \/ \E i \in Groups : OutPorts(i)
    \/ Clear
    \/ Return

SpecQ == Init /\ [][NextQ]_vars

----------------------------------------------------------------------------
\* The scenario of test_create: a pattern over '/foo[0:3]' and '/bar[0:3]'
\* and six connections written one by one, in any order.

ScenarioWrites == {<<sFoo0, sBar0>>, <<sFoo0, sBar1>>, <<sFoo2, sBar2>>,
                   <<sBar0, sFoo0>>, <<sBar1, sFoo0>>, <<sBar2, sFoo1>>}

\* p[src, dst] = 1, for a connection not written yet.
ScenarioWrite(src, dst) ==
    /\ pc = "idle"
    /\ Pairs(src, dst) \cap Keys(data) = {}
    /\ \E o \in Pattern__setitem__(interface, data, columns, src, dst, <<>>, Scalar(1)) :
        /\ interface' = o.interface
        /\ data' = o.data
        /\ columns' = o.columns
        /\ last' = [op |-> "setitem", status |-> o.status,
                    args |-> [src |-> src, dst |-> dst, cols |-> <<>>,
                              value |-> Scalar(1), found |-> o.found]]
    /\ nwrites' = nwrites + 1
    /\ pc' = "returned"

NextS ==
    \/ New(<<sFoo, sBar>>)
    \/ \E w \in ScenarioWrites : ScenarioWrite(w[1], w[2])
    \/ \E g \in {<<0, 1>>, <<1, 0>>} : IsConnected(g[1], g[2])
    \/ SrcIdx(0, 1, None, None, sBar0)
    \/ Return

SpecS == Init /\ [][NextS]_vars

----------------------------------------------------------------------------
\* A port table on its own: t = Interface(selector), the writes
\* t[sel, cols...] = value and the calls that read it.  The table is in
\* `interface`; `data` and `columns` stay empty.

sAAB == Sel(<<aaa0, aaa1, bbb0>>, FALSE) \* '/aaa[0:2],/bbb[0]'

\* Inputs of the calls.
TableSelectors == {sAAB, sB00, sBany}
TableWrites ==
    {[sel |-> sA0, cols |-> <<"interface", "io">>, value |-> List(<<0, "in">>)],
     [sel |-> sA, cols |-> <<"interface", "io">>, value |-> List(<<0, "out">>)],
     [sel |-> sB0, cols |-> <<"interface", "io">>, value |-> List(<<1, "in">>)],
     [sel |-> sA1, cols |-> <<"type">>, value |-> Scalar("spike")],
     [sel |-> sBC0, cols |-> <<"type">>, value |-> Scalar("spike")],
     [sel |-> sC0, cols |-> <<"type">>, value |-> Scalar("gpot")],
     [sel |-> sC00, cols |-> <<"type">>, value |-> Scalar("gpot")],
     [sel |-> sB0, cols |-> <<"io", "type">>, value |-> List(<<"out">>)],
     [sel |-> sA0, cols |-> <<"type">>, value |-> List(<<"spike", "gpot">>)],
     [sel |-> sA1, cols |-> <<"io">>, value |-> Dict([type |-> "gpot"])],
     [sel |-> sA0, cols |-> <<"type">>, value |-> None]}
ReadPortSelectors == {sA0, sA, sAB0, sBC0, sC0}

\* The table of Interface(sel) after t[sel, 'interface', 'io'] = [g, io],
\* and after t[sel, 'interface'] = g only.
TableOf(sel, g, io) ==
    LET t == Interface__init__(sel).data
        w == CHOOSE o \in Interface__setitem__(t, InterfaceColumns, sel,
                                               <<"interface", "io">>, List(<<g, io>>)) : TRUE
    IN  w.rows
TableNoIo(sel, g) ==
    LET t == Interface__init__(sel).data
        w == CHOOSE o \in Interface__setitem__(t, InterfaceColumns, sel,
                                               <<"interface">>, Scalar(g)) : TRUE
    IN  w.rows

\* The other tables given to is_compatible.
OtherTables == {TableOf(sA, 1, "in"), TableOf(sA, 1, "out"), TableOf(sA0, 1, "in"),
                TableNoIo(sA, 1)}

\* t = Interface(sel)
NewInterface(sel) ==
    /\ pc = "new"
    /\ LET t == Interface__init__(sel)
       IN  /\ pc' = IF t.status = "ok" THEN "returned" ELSE "failed"
           /\ interface' = t.data
           /\ last' = [op |-> "interface_init", status |-> t.status,
                       args |-> [sel |-> sel]]
    /\ UNCHANGED <<data, columns, nwrites>>

\* t[sel, cols...] = value
PortSetitem(sel, cols, value) ==
    /\ pc = "idle"
    /\ nwrites < MaxPortWrites
    /\ \E o \in Interface__setitem__(interface, InterfaceColumns, sel, cols, value) :
        /\ interface' = o.rows
        /\ last' = [op |-> "port_setitem", status |-> o.status,
                    args |-> [sel |-> sel, cols |-> cols, value |-> value]]
    /\ nwrites' = nwrites + 1
    /\ pc' = "returned"
    /\ UNCHANGED <<data, columns>>

\* t.is_compatible(a, other, b)
IsCompatible(a, other, b) ==
    LET r == is_compatible(interface, a, other, b)
    IN  Query("is_compatible", r.status, [a |-> a, other |-> other, b |-> b], r.result)

NextI ==
    \/ \E sel \in TableSelectors : NewInterface(sel)
    \/ \E w \in TableWrites : PortSetitem(w.sel, w.cols, w.value)
    \/ \E a \in {0, 1}, other \in OtherTables : IsCompatible(a, other, 1)
    \/ \E sel \in ReadPortSelectors : WhichInt(sel)
    \/ \E i \in Groups : Ports(i)
    \/ \E i \in Groups : InPorts(i)
    \/ \E i \in Groups : OutPorts(i)
    \/ Return

SpecI == Init /\ [][NextI]_vars

----------------------------------------------------------------------------
\* Properties.

\* A Pattern object exists.
Live == pc \in {"idle", "returned"}

\* The step is a call p[src, dst, cols...] = value; its arguments and its
\* outcome are in last'.
SetitemStep == pc = "idle" /\ pc' = "returned" /\ last'.op = "setitem"

\* The state is the one a call p[src, dst, cols...] = value returned in.
SetitemReturned == pc = "returned" /\ last.op = "setitem"

\* The cell of column c in the row of key k.
Cell(rows, k, c) == LET i == CHOOSE j \in DOMAIN rows : rows[j].key = k
                    IN  rows[i].attrs[c]

\* C1: no fan-in -- in every state of a pattern, whatever connection writes,
\* bulk constructors and clear() produced it, each destination identifier is
\* the destination of at most one edge.
NoFanIn ==
    Live => \A i, j \in DOMAIN data : data[i].key[2] = data[j].key[2] => i = j

\* Inserting the pairs of src x dst into rows would give some destination
\* two different sources.
WouldFanIn(rows, src, dst) ==
    \E k \in Pairs(src, dst), l \in Keys(rows) \cup Pairs(src, dst) :
        k[2] = l[2] /\ k[1] # l[1]

\* C2: a connection write that would make some destination the target of
\* edges from two different sources is rejected with a FanIn error and is not
\* applied.  (Stated for the writes whose key passes the assertions and whose
\* selectors each match ports of one group; a write that another error
\* rejects is not held against the claim.)
FanInWriteRejected ==
    [][(/\ SetitemStep
        /\ setitem_assert(interface, last'.args.src, last'.args.dst) = "ok"
        /\ Cardinality(which_int(interface, last'.args.src)) = 1
        /\ Cardinality(which_int(interface, last'.args.dst)) = 1
        /\ WouldFanIn(data, last'.args.src, last'.args.dst))
       => (last'.status # "ok" /\ data' = data)]_vars

\* C3: edge keys are unique -- no <<source, destination>> key occurs in more
\* than one row of the connection table, whatever single and bulk writes with
\* overlapping selectors were made.
EdgeKeysUnique ==
    Live => ~HasDup([i \in DOMAIN data |-> data[i].key])

\* C3 witness: a bulk write whose selectors overlap existing edges succeeded.
EdgeKeysUniqueWitness ==
    /\ SetitemReturned
    /\ last.status = "ok"
    /\ last.args.found
    /\ Cardinality(Pairs(last.args.src, last.args.dst)) > 1
    /\ Len(data) > 1

\* The interface group of port id in the port table rows.
GroupOf(rows, id) == Cell(rows, id, "interface")

\* C4: source and destination of every edge belong to two different
\* interface groups, also when a selector of the write matches ports of more
\* than one group.  (Stated for the edges whose two ends are ports of the
\* table.)
EdgeEndsInDifferentGroups ==
    Live => \A i \in DOMAIN data :
                (data[i].key[1] \in Keys(interface) /\ data[i].key[2] \in Keys(interface))
                => GroupOf(interface, data[i].key[1]) # GroupOf(interface, data[i].key[2])

\* C5: a connection write whose source and destination selectors resolve to
\* ports of the same interface group fails with a Direction error and changes
\* neither the edges nor any port attribute.
SameGroupWriteRejected ==
    [][(/\ SetitemStep
        /\ in_interfaces(interface, last'.args.src)
        /\ in_interfaces(interface, last'.args.dst)
        /\ which_int(interface, last'.args.src) = which_int(interface, last'.args.dst))
       => (/\ last'.status = "Direction"
           /\ data' = data
           /\ columns' = columns
           /\ interface' = interface)]_vars

\* C5 witness: a write between two ports of group 0 of a pattern that has
\* edges has returned with a Direction error.
SameGroupWriteRejectedWitness ==
    /\ SetitemReturned
    /\ last.status = "Direction"
    /\ last.args.src = sA0
    /\ last.args.dst = sA1
    /\ data # <<>>

\* C6: a connection write that is rejected, for any reason, leaves the edges
\* exactly as they were.
RejectedWriteKeepsEdges ==
    [][(SetitemStep /\ last'.status # "ok") => data' = data]_vars

\* C7: after a successful write p[src, dst] = v every pair of src x dst is an
\* edge carrying the written value, also when only some of the pairs were
\* edges before.
WriteStoresAllPairs ==
    [][(SetitemStep /\ last'.status = "ok")
       => LET d == value_to_dict(last'.args.cols, columns, last'.args.value).d
          IN  \A k \in Pairs(last'.args.src, last'.args.dst) :
                /\ k \in Keys(data')
                /\ \A c \in DOMAIN d : Cell(data', k, c) = d[c]]_vars

\* C8: after a successful write p[src, dst] = v every port matched by src has
\* io = 'in' and every port matched by dst has io = 'out'; interface and type
\* of every port are unchanged.
WriteTagsIo ==
    [][(SetitemStep /\ last'.status = "ok")
       => /\ Keys(interface') = Keys(interface)
          /\ \A k \in Keys(interface) :
                /\ Cell(interface', k, "interface") = Cell(interface, k, "interface")
                /\ Cell(interface', k, "type") = Cell(interface, k, "type")
                /\ Matches(last'.args.src, k) => Cell(interface', k, "io") = "in"
                /\ Matches(last'.args.dst, k) => Cell(interface', k, "io") = "out"]_vars

\* C9: a successful write for pairs that are already edges overwrites their
\* attributes with the new values and leaves the number of edges unchanged.
RewriteOverwrites ==
    [][(/\ SetitemStep
        /\ last'.status = "ok"
        /\ Pairs(last'.args.src, last'.args.dst) \cap Keys(data) # {})
       => LET d == value_to_dict(last'.args.cols, columns, last'.args.value).d
          IN  /\ Len(data') = Len(data)
              /\ Keys(data') = Keys(data)
              /\ \A k \in Pairs(last'.args.src, last'.args.dst) \cap Keys(data) :
                    \A c \in DOMAIN d : Cell(data', k, c) = d[c]]_vars

\* C9 witness: the only edge, created with conn 1 or unset, was written
\* again with conn = 0: there is still one edge and its conn is 0.
RewriteOverwritesWitness ==
    /\ SetitemReturned
    /\ last.status = "ok"
    /\ last.args.found
    /\ last.args.value = Scalar(0)
    /\ Len(data) = 1
    /\ data[1].attrs["conn"] = 0

\* Two of the selectors share a port identifier.
Overlap(sels) ==
    \E i, j \in DOMAIN sels :
        i # j /\ \E id \in Range(sels[i].ids) : id \in Range(sels[j].ids)

\* C10: Pattern construction fails with a Disjointness error whenever two of
\* its selectors share a port identifier, and no pattern is produced.
OverlapFailsConstruction ==
    (last.op = "init" /\ Overlap(last.args.sels))
    => (last.status = "Disjointness" /\ pc = "failed" /\ interface = <<>> /\ data = <<>>)

\* C10 witness: Pattern('/aaa[0:2]', '/aaa[0]') has failed.
OverlapFailsConstructionWitness ==
    /\ pc = "failed"
    /\ last.op = "init"
    /\ last.args.sels = <<sA, sA0>>
    /\ last.status = "Disjointness"

\* C11: immediately after Pattern(sel_0, ..., sel_{n-1}) succeeds, the port
\* table holds exactly the identifiers of the selectors, each once, every
\* port produced by sel_i has interface i, every port has io unset, and there
\* is no edge.
InitState ==
    (pc = "returned" /\ last.op = "init" /\ last.status = "ok")
    => LET sels == last.args.sels
       IN  /\ Keys(interface) = UNION {Range(sels[i].ids) : i \in DOMAIN sels}
           /\ ~HasDup([i \in DOMAIN interface |-> interface[i].key])
           /\ \A i \in DOMAIN sels : \A id \in Range(sels[i].ids) :
                 Cell(interface, id, "interface") = i - 1
           /\ \A k \in Keys(interface) : Cell(interface, k, "io") = NaNStr
           /\ data = <<>>

\* C11 witness: Pattern('/aaa[1]', '/bbb[0:2]', '/aaa[0]') has returned.
InitStateWitness ==
    /\ pc = "returned"
    /\ last.op = "init"
    /\ last.status = "ok"
    /\ last.args.sels = <<sA1, sB, sA0>>
    /\ Len(interface) = 4

\* The step is a call p.clear().
ClearStep == pc = "idle" /\ pc' = "returned" /\ last'.op = "clear"

\* C12: after clear() the pattern has no edge, and interface, io and type of
\* every port are what they were before, the io tags that earlier connection
\* writes set included.
ClearKeepsPorts ==
    [][ClearStep => (data' = <<>> /\ interface' = interface)]_vars

\* C12 witness: clear() has returned on a pattern that had edges, and a port
\* still has the io tag a write gave it.
ClearKeepsPortsWitness ==
    /\ pc = "returned"
    /\ last.op = "clear"
    /\ last.args.len > 0
    /\ data = <<>>
    /\ \E i \in DOMAIN interface : interface[i].attrs["io"] = "in"

\* Port id is a port of interface group g.
InGroup(rows, id, g) ==
    \E i \in DOMAIN rows : rows[i].key = id /\ rows[i].attrs["interface"] = g

\* Port id has type t, or no type is asked for.
HasType(rows, id, t) ==
    t = None \/ \E i \in DOMAIN rows : rows[i].key = id /\ rows[i].attrs["type"] = t.v

\* A call of the query op has just returned; the tables are those it read.
QueryReturned(op) == pc = "returned" /\ last.op = op

\* Both groups are groups of the pattern.
ValidGroups(a, b) == a \in interface_ids(interface) /\ b \in interface_ids(interface)

\* C13: for groups a # b of the pattern, is_connected(a, b) returns true if
\* and only if some edge has a non-zero conn, its source in group a and its
\* destination in group b; is_connected(a, a) fails.
IsConnectedIff ==
    QueryReturned("is_connected")
    => LET a == last.args.from_int
           b == last.args.to_int
       IN  /\ a = b => last.status # "ok"
           /\ (a # b /\ ValidGroups(a, b))
              => /\ last.status = "ok"
                 /\ last.result =
                      (\E i \in DOMAIN data :
                          /\ data[i].attrs["conn"] # 0
                          /\ InGroup(interface, data[i].key[1], a)
                          /\ InGroup(interface, data[i].key[2], b))

\* The edges a src_idx / dest_idx call selects: source in group a with the
\* source type, destination in group b with the destination type, and the
\* end at position `end` matched by the ports selector when one is given.
SelectedEdges(args, end) ==
    LET Test(r) ==
            /\ InGroup(interface, r.key[1], args.src_int)
            /\ HasType(interface, r.key[1], args.src_type)
            /\ InGroup(interface, r.key[2], args.dest_int)
            /\ HasType(interface, r.key[2], args.dest_type)
            /\ args.ports = None \/ Matches(args.ports, r.key[end])
    IN  SelectSeq(data, Test)

\* The ends at position `end` of a sequence of edges, each once, in order of
\* first occurrence.
FirstOccurrences(rows, end) == OrderedKeys([i \in DOMAIN rows |-> rows[i].key[end]])

\* C14: for groups a # b, src_idx(a, b, src_type, dest_type, dest_ports)
\* returns exactly the sources in group a (of type src_type when given) with
\* an edge to a port in group b (of type dest_type when given, matched by
\* dest_ports when given), each once in order of first occurrence in the
\* edge table; src_idx(a, a) fails.
SrcIdxExact ==
    QueryReturned("src_idx")
    => /\ last.args.src_int = last.args.dest_int => last.status # "ok"
       /\ (last.args.src_int # last.args.dest_int
            /\ ValidGroups(last.args.src_int, last.args.dest_int))
          => /\ last.status = "ok"
             /\ last.result = FirstOccurrences(SelectedEdges(last.args, 2), 1)

\* C15: for groups a # b, dest_idx(a, b, src_type, dest_type, src_ports)
\* returns exactly the destinations in group b (of type dest_type when
\* given) reached by an edge from a port in group a (of type src_type when
\* given, matched by src_ports when given), each once in order of first
\* occurrence in the edge table; dest_idx(a, a) fails.
DestIdxExact ==
    QueryReturned("dest_idx")
    => /\ last.args.src_int = last.args.dest_int => last.status # "ok"
       /\ (last.args.src_int # last.args.dest_int
            /\ ValidGroups(last.args.src_int, last.args.dest_int))
          => /\ last.status = "ok"
             /\ last.result = FirstOccurrences(SelectedEdges(last.args, 1), 2)

QueryOps == {"getitem", "src_idx", "dest_idx", "is_connected", "get_conns",
             "which_int", "in_interfaces", "get_interface", "ports", "in_ports",
             "out_ports"}

\* C19: queries never mutate -- reading a connection, src_idx, dest_idx,
\* is_connected, get_conns, which_int, in_interfaces, get_interface, ports,
\* in_ports and out_ports leave the edge table and the port table unchanged,
\* whether they return or fail.
QueriesNeverMutate ==
    [][(pc = "idle" /\ pc' = "returned" /\ last'.op \in QueryOps)
       => (data' = data /\ interface' = interface /\ columns' = columns)]_vars

\* C19 witness: get_conns() has returned the two or more edges of a pattern
\* whose ports carry io tags.
QueriesNeverMutateWitness ==
    /\ QueryReturned("get_conns")
    /\ Len(last.result) > 1
    /\ Len(data) > 1
    /\ \E i \in DOMAIN interface : interface[i].attrs["io"] = "out"

\* The six connections of the scenario are written.
ScenarioDone == \A w \in ScenarioWrites : Pairs(w[1], w[2]) \subseteq Keys(data)

\* C17: from a new pattern over /foo[0:3] and /bar[0:3], the six writes
\* /foo[0]->/bar[0], /foo[0]->/bar[1], /foo[2]->/bar[2], /bar[0]->/foo[0],
\* /bar[1]->/foo[0], /bar[2]->/foo[1] all succeed and reach a state with
\* exactly 6 edges where is_connected(0, 1) and is_connected(1, 0) are true
\* and src_idx(0, 1, dest_ports='/bar[0]') is [('foo', 0)].
ScenarioHolds ==
    /\ (pc = "returned" /\ last.op = "setitem") => last.status = "ok"
    /\ (Live /\ ScenarioDone)
       => /\ Len(data) = 6
          /\ is_connected(interface, data, 0, 1) = [status |-> "ok", result |-> TRUE]
          /\ is_connected(interface, data, 1, 0) = [status |-> "ok", result |-> TRUE]
          /\ src_idx(interface, data, 0, 1, None, None, sBar0)
               = [status |-> "ok", result |-> <<foo0>>]

\* The port identifiers of the model, and the one a string denotes.
Identifiers == {aaa0, aaa1, bbb0, bbb1, ccc0, foo0, foo1, foo2, bar0, bar1, bar2}
Denoted(str) == {id \in Identifiers : to_identifier(id) = str}

\* The list of pairs g is the edge table in canonical order, each key once,
\* and the list of string pairs gs denotes the same pairs in the same order.
ConnsListed(g, gs, rows) ==
    /\ Range(g) = Keys(rows)
    /\ ~HasDup(g)
    /\ \A i, j \in DOMAIN g : i < j => PairLess(g[i], g[j])
    /\ Len(gs) = Len(g)
    /\ \A i \in DOMAIN g :
          Denoted(gs[i][1]) = {g[i][1]} /\ Denoted(gs[i][2]) = {g[i][2]}

\* C18: after a successful connection write, get_conns() lists every pair
\* of the write, and every edge, exactly once in the canonical order of the
\* edge table, and get_conns(as_str=True) lists the same pairs in the same
\* order as identifier strings that denote the same identifiers.
GetConnsListsWrites ==
    [][(SetitemStep /\ last'.status = "ok")
       => /\ Pairs(last'.args.src, last'.args.dst)
               \subseteq Range(get_conns(data', FALSE))
          /\ ConnsListed(get_conns(data', FALSE), get_conns(data', TRUE), data')]_vars

\* C20: in every state of a port table, after construction and after any
\* writes that overwrite or append rows, each port identifier is in at most
\* one row; constructing a table from a selector that expands with a
\* duplicate identifier, or from a table that holds one, fails.
PortIdsUnique ==
    /\ Live => ~HasDup(KeySeq(interface))
    /\ (last.op = "init" /\ HasDup(JoinSelectors(last.args.sels).ids))
       => (pc = "failed" /\ last.status = "DuplicateIdentifier")
    /\ (Live /\ interface # <<>>)
       => from_df(interface \o interface, InterfaceColumns).status # "ok"

\* C20 witness: a write through p.interface has overwritten rows of a port
\* table to which an earlier write had appended the row of '/ccc[0]'.
PortIdsUniqueWitness ==
    /\ pc = "returned"
    /\ last.op = "interface_setitem"
    /\ last.status = "ok"
    /\ last.args.sel = sA
    /\ ccc0 \in Keys(interface)
    /\ Cell(interface, aaa0, "type") = "spike"

\* The step is a write t[sel, cols...] = value on the port table.
PortSetitemStep == pc = "idle" /\ pc' = "returned" /\ last'.op = "port_setitem"

\* The rows are in canonical order.
Sorted(rows) == \A i, j \in DOMAIN rows : i < j => IdLess(rows[i].key, rows[j].key)

\* C21: after a successful write t[sel, cols] = value every identifier sel
\* matches is a row holding the value in cols; the rows that existed are
\* overwritten in place, their other columns unchanged; new rows have their
\* other columns unset, and after an append the rows are in canonical order;
\* a write whose selector matches no row and cannot be expanded fails.
PortWriteStores ==
    [][PortSetitemStep
       => LET sel == last'.args.sel
              d == value_to_dict(last'.args.cols, InterfaceColumns, last'.args.value).d
          IN  /\ (~get_index(interface, sel).ok /\ ~make_index(sel).ok)
                 => last'.status # "ok"
              /\ last'.status = "ok"
                 => /\ \A id \in Range(sel.ids) :
                         /\ id \in Keys(interface')
                         /\ \A c \in DOMAIN d : Cell(interface', id, c) = d[c]
                    /\ \A k \in Keys(interface) :
                         /\ k \in Keys(interface')
                         /\ \A c \in Range(InterfaceColumns) :
                              (~Matches(sel, k) \/ c \notin DOMAIN d)
                              => Cell(interface', k, c) = Cell(interface, k, c)
                    /\ \A k \in Keys(interface') \ Keys(interface) :
                         \A c \in Range(InterfaceColumns) \ DOMAIN d :
                              Cell(interface', k, c) = NaNOf(c)
                    /\ Keys(interface') # Keys(interface) => Sorted(interface')]_vars

\* The identifiers of the ports of group g in a table, and whether the io
\* of each of them is set.
GroupIds(rows, g) == {rows[i].key : i \in {j \in DOMAIN rows : rows[j].attrs["interface"] = g}}
GroupIoSet(rows, g) == \A k \in GroupIds(rows, g) : Cell(rows, k, "io") \in {"in", "out"}

\* C22: is_compatible(a, other, b) returns true if and only if the
\* identifiers of group a here are those of group b in the other table and
\* each has opposite io in the two tables, whenever the compared rows have
\* their io set; it fails with a Direction error when a compared row has its
\* io unset.
IsCompatibleIff ==
    QueryReturned("is_compatible")
    => LET a == last.args.a
           b == last.args.b
           other == last.args.other
       IN  IF GroupIoSet(interface, a) /\ GroupIoSet(other, b)
           THEN /\ last.status = "ok"
                /\ last.result =
                     (/\ GroupIds(interface, a) = GroupIds(other, b)
                      /\ \A k \in GroupIds(interface, a) :
                            Cell(interface, k, "io") # Cell(other, k, "io"))
           ELSE last.status = "Direction"

\* The position of identifier k in a table, and whether a list of
\* identifiers follows the order of the table without repeating one.
PosOf(rows, k) == CHOOSE i \in DOMAIN rows : rows[i].key = k
InTableOrder(rows, l) ==
    \A i, j \in DOMAIN l : i < j => PosOf(rows, l[i]) < PosOf(rows, l[j])

\* The identifiers of group g whose io is d.
GroupIoIds(rows, g, d) == {k \in GroupIds(rows, g) : Cell(rows, k, "io") = d}

\* C23: ports(g) lists exactly the identifiers whose group is g, in_ports(g)
\* those of them with io 'in' and out_ports(g) those with io 'out', each in
\* table order; in_ports(g) and out_ports(g) share no identifier; the three
\* calls return, with an empty list when no port has group g.
PortListsExact ==
    /\ \A op \in {"ports", "in_ports", "out_ports"} :
         QueryReturned(op)
         => LET g == last.args.i
                want == CASE op = "ports" -> GroupIds(interface, g)
                          [] op = "in_ports" -> GroupIoIds(interface, g, "in")
                          [] op = "out_ports" -> GroupIoIds(interface, g, "out")
            IN  /\ last.status = "ok"
                /\ Range(last.result) = want
                /\ InTableOrder(interface, last.result)
                /\ GroupIds(interface, g) = {} => last.result = <<>>
    /\ Live => \A g \in Groups :
                 Range(in_ports(interface, g)) \cap Range(out_ports(interface, g)) = {}

\* in_ports returned a list for a group that also has output ports.
PortListsExactWitness ==
    /\ QueryReturned("in_ports")
    /\ last.result # <<>>
    /\ out_ports(interface, last.args.i) # <<>>

\* C24: which_int(sel) returns exactly the set of the group values of the
\* ports sel matches, the unset value left out; it returns, with the empty
\* set when sel matches no port or only ports whose group is unset.
WhichIntExact ==
    QueryReturned("which_int")
    => LET sel == last.args.sel
           matched == {k \in Keys(interface) : Matches(sel, k)}
       IN  /\ last.status = "ok"
           /\ \A g \in Groups \cup {NaN} :
                g \in last.result
                <=> (g # NaN /\ \E k \in matched : Cell(interface, k, "interface") = g)
           /\ last.result \subseteq Groups
           /\ (\A k \in matched : Cell(interface, k, "interface") = NaN)
              => last.result = {}

\* which_int returned the group of one matched port while another matched
\* port has its group unset.
WhichIntExactWitness ==
    /\ QueryReturned("which_int")
    /\ last.result # {}
    /\ \E k \in Keys(interface) :
         Matches(last.args.sel, k) /\ Cell(interface, k, "interface") = NaN

\* The constructor call op has run, and whether it built a pattern.
Built(op) == pc = "returned" /\ last.op = op /\ last.status = "ok"
BulkCalled(op) == pc \in {"returned", "failed"} /\ last.op = op

\* C25: the edges of a pattern built by from_product are exactly the pairs
\* of an identifier of from_sel with an identifier of to_sel; the edges of a
\* pattern built by from_concat are exactly the pairs of the i-th identifier
\* of from_sel with the i-th of to_sel; from_concat fails when the two
\* selectors expand to sequences of different length.
BulkEdges ==
    /\ Built("from_product")
       => /\ Keys(data) = Pairs(last.args.from_sel, last.args.to_sel)
          /\ ~HasDup(KeySeq(data))
    /\ Built("from_concat")
       => LET f == last.args.from_sel.ids
              t == last.args.to_sel.ids
          IN  /\ Len(f) = Len(t)
              /\ Keys(data) = {<<f[i], t[i]>> : i \in DOMAIN f}
              /\ ~HasDup(KeySeq(data))
    /\ (BulkCalled("from_concat")
        /\ Len(last.args.from_sel.ids) # Len(last.args.to_sel.ids))
       => pc = "failed"

\* from_concat built a pattern from two selectors of two identifiers each.
BulkEdgesWitness ==
    /\ Built("from_concat")
    /\ Len(last.args.from_sel.ids) = 2
    /\ Len(data) = 2

\* C26: both endpoints of every edge of a pattern are identifiers of its
\* port table, also after a write whose selector matches some identifiers
\* of the table and some outside it.
EdgeEndsInTable ==
    Live => \A i \in DOMAIN data :
              /\ data[i].key[1] \in Keys(interface)
              /\ data[i].key[2] \in Keys(interface)

\* The io of identifier k, when k is a port of the table.
IoIs(rows, k, d) == k \in Keys(rows) => Cell(rows, k, "io") = d

\* C27: every source of an edge has io 'in' and every destination of an
\* edge has io 'out', so no port is the source of one edge and the
\* destination of another.
EdgeEndsTagged ==
    Live => /\ \A i \in DOMAIN data :
                 /\ IoIs(interface, data[i].key[1], "in")
                 /\ IoIs(interface, data[i].key[2], "out")
            /\ \A i, j \in DOMAIN data : data[i].key[1] # data[j].key[2]

\* C28: a connection write that fails, whatever the reason, leaves the port
\* table as it was.
RejectedWriteKeepsPorts ==
    [][(SetitemStep /\ last'.status # "ok") => interface' = interface]_vars

\* C29: a write that names columns stores a scalar in every named column of
\* every addressed row, a mapping by column key and a sequence column by
\* column in the order the columns are named; a sequence with more or fewer
\* elements than named columns is rejected with a ValueShape error.
NamedColumnsStore ==
    [][(PortSetitemStep /\ last'.args.cols # <<>>)
       => LET sel == last'.args.sel
              cols == last'.args.cols
              value == last'.args.value
              addressed == {k \in Keys(interface') : Matches(sel, k)}
              Stored(c, v) == \A k \in addressed : Cell(interface', k, c) = v
          IN  /\ (value.kind = "scalar" /\ last'.status = "ok")
                 => \A c \in Range(cols) : Stored(c, value.v)
              /\ (value.kind = "dict" /\ last'.status = "ok")
                 => \A c \in DOMAIN value.d : Stored(c, value.d[c])
              /\ (value.kind = "list" /\ Len(value.s) = Len(cols) /\ last'.status = "ok")
                 => \A i \in DOMAIN cols : Stored(cols[i], value.s[i])
              /\ (value.kind = "list" /\ Len(value.s) # Len(cols))
                 => last'.status = "ValueShape"]_vars

====
